---- MODULE Spec2Model ----
(***************************************************************************)
(* DHT_Logger: the MQTT ingestion pipeline (web/src/mqtt.py), the reading  *)
(* store insert (web/src/models.py, web/src/database.py), the SSE          *)
(* broadcaster and the range query (web/src/main.py), as state machines    *)
(* over one set of variables.                                              *)
(*                                                                         *)
(* Text is modelled as a sequence of tokens.  In a timestamp the token "d" *)
(* stands for a calendar date (2025-01-11), "t" for a time of day          *)
(* (12:30:45); "T", "Z" and " " are the characters themselves.  A JSON     *)
(* value is a record [t, n, s]: its type, its number, its text.            *)
(***************************************************************************)
EXTENDS Integers, Sequences, FiniteSets, TLC

\* ---------------------------------------------------------------- bounds
\* Number of messages the broker delivers in one run of Spec.
MaxMsgs == 2
\* Number of messages the broker delivers in one run of SpecShort.
ShortMsgs == 1
\* Number of SSE observers that connect in one run.
MaxObs == 2
\* Rows of the queried device in sensor_data when a range request arrives.
MaxRows == 250
\* Rows committed for the device while the request is served.
MaxLate == 1
\* Times the clock advances while the request is served.
MaxTicks == 1
\* Largest sampling interval tried on a window.
MaxInterval == 5
\* Largest count for which the number of sampled points is computed.
MaxTotal == 1000

Msgs == 1..MaxMsgs
Obs == 1..MaxObs

\* ------------------------------------------------------------ JSON values
Num(x) == [t |-> "num", n |-> x, s |-> <<>>]
Str(x) == [t |-> "str", n |-> 0, s |-> x]
None == [t |-> "null", n |-> 0, s |-> <<>>]

Range(f) == {f[i] : i \in DOMAIN f}

\* mqtt.py:134
required_fields == <<"device_id", "mac_address", "temperature", "humidity", "timestamp">>

\* ------------------------------------------------------------- conversions
\* str(x) on a decoded JSON value (mqtt.py:149, 150, 162).
Digits == [x \in {21, 40, 1736598645} |->
             CASE x = 21 -> "21" [] x = 40 -> "40" [] OTHER -> "1736598645"]
PyStr(v) ==
  CASE v.t = "str" -> v
    [] v.t = "num" -> Str(<<Digits[v.n]>>)
    [] OTHER -> Str(<<"None">>)

\* type(x).__name__ (mqtt.py:163).
TypeName(v) ==
  CASE v.t = "str" -> "str"
    [] v.t = "num" -> "int"
    [] OTHER -> "NoneType"

\* float(x) (mqtt.py:151, 152): a number converts, text converts when it
\* spells a number, anything else raises ValueError or TypeError.
FloatText == [x \in {"22"} |-> 22]
PyFloat(v) ==
  CASE v.t = "num" -> [ok |-> TRUE, val |-> v.n]
    [] v.t = "str" /\ Len(v.s) = 1 /\ v.s[1] \in DOMAIN FloatText
         -> [ok |-> TRUE, val |-> FloatText[v.s[1]]]
    [] OTHER -> [ok |-> FALSE, val |-> 0]

\* isinstance(x, str) (mqtt.py:156).
\* Variant: every value passes for text.
IsStrAlways(v) == TRUE
IsStr(v) == v.t = "str"

\* str.replace('T', ' ')
ReplaceT(s) == [i \in 1..Len(s) |-> IF s[i] = "T" THEN " " ELSE s[i]]
\* str.replace('Z', '')
RemoveZ(s) == SelectSeq(s, LAMBDA c : c # "Z")
\* str.strip()
RECURSIVE LStrip(_)
LStrip(s) == IF s # <<>> /\ Head(s) = " " THEN LStrip(Tail(s)) ELSE s
RECURSIVE RStrip(_)
RStrip(s) ==
  IF s # <<>> /\ s[Len(s)] = " " THEN RStrip(SubSeq(s, 1, Len(s) - 1)) ELSE s
Strip(s) == RStrip(LStrip(s))

\* mqtt.py:170, models.py:61: timestamp.replace('T', ' ').replace('Z', '').strip()
Normalize(s) == Strip(RemoveZ(ReplaceT(s)))

\* datetime.fromisoformat (mqtt.py:171, models.py:65): TRUE when it returns,
\* FALSE when it raises ValueError.  A date, or a date, one separator and a
\* time of day.
\* Variant: nothing is refused.
FromIsoFormatAny(s) == TRUE
FromIsoFormat(s) == s \in {<<"d">>, <<"d", " ", "t">>}

\* ---------------------------------------------------------------- inputs
\* The payloads the broker may deliver.  A payload either fails json.loads,
\* or decodes to something that is no object (an array), or decodes to an
\* object: a function from the keys present to JSON values.
DeviceIds == {Str(<<"esp32-a">>)}
MacAddresses == {Str(<<"AA:BB:CC:DD:EE:FF">>)}
Temperatures == {Num(21), Str(<<"hot">>)}
Humidities == {Num(40), None}
Timestamps == {Num(1736598645), Str(<<"d", "T", "t", "Z">>), Str(<<"d", " ", "t">>),
               Str(<<"not-a-date">>)}
MissingChoices == {{"humidity"}, {"device_id", "timestamp"}}

Object(d, m, te, hu, ts) ==
  [device_id |-> d, mac_address |-> m, temperature |-> te, humidity |-> hu,
   timestamp |-> ts]
Without(o, F) == [k \in (DOMAIN o) \ F |-> o[k]]

FullObjects ==
  {Object(d, m, te, hu, ts) : d \in DeviceIds, m \in MacAddresses,
     te \in Temperatures, hu \in Humidities, ts \in Timestamps}
PartialObjects ==
  {Without(Object(Str(<<"esp32-a">>), m, Num(21), Num(40), Str(<<"d", "T", "t", "Z">>)), F) :
     m \in MacAddresses, F \in MissingChoices}
Payloads ==
  {[json |-> "invalid", data |-> <<>>], [json |-> "array", data |-> <<>>]}
    \cup {[json |-> "object", data |-> o] : o \in FullObjects \cup PartialObjects}
NoPayload == [json |-> "none", data |-> <<>>]

\* ------------------------------------------------------------ _send_ack
\* Variant: every key is set in every acknowledgment.
ack_payload_flat(success, device_id, mac_address, timestamp, log_id, error) ==
  [success |-> success, device_id |-> device_id, mac_address |-> mac_address,
   timestamp |-> timestamp, log_id |-> log_id,
   message |-> <<"Data logged successfully">>, error |-> error]
\* mqtt.py:261-272: the acknowledgment dict.  log_id = 0 stands for None,
\* error = <<>> for None.
ack_payload(success, device_id, mac_address, timestamp, log_id, error) ==
  LET base == [success |-> success, device_id |-> device_id,
               mac_address |-> mac_address, timestamp |-> timestamp]
  IN  IF success /\ log_id # 0
        THEN base @@ [log_id |-> log_id, message |-> <<"Data logged successfully">>]
        ELSE IF error # <<>> THEN base @@ [error |-> error] ELSE base

\* dict.get (mqtt.py:141-143)
Get(data, k) == IF k \in DOMAIN data THEN data[k] ELSE None

\* ------------------------------------------------- _handle_message, part 1
\* mqtt.py:119-181 with the handlers of 238-243: everything _handle_message
\* does before its first await.  step = "drop": an exception was logged and
\* the handler is over; "ack": _send_ack is called with ack and the handler
\* returns after it; "insert": the insert is started.
\* Variant: only the first missing field is reported.
missing_fields_first(data) ==
  LET all == SelectSeq(required_fields, LAMBDA f : f \notin DOMAIN data)
  IN  IF all = <<>> THEN <<>> ELSE <<Head(all)>>
\* mqtt.py:135
missing_fields(data) == SelectSeq(required_fields, LAMBDA f : f \notin DOMAIN data)

FailAck(why, ack) == [step |-> "ack", log |-> why, ack |-> ack]
\* Variant: a generic failure notice is published for a dropped message.
DropWithNotice(why) == FailAck(why, ack_payload(FALSE, None, None, None, 0, <<why>>))
\* mqtt.py:238-243: the exception is logged, nothing else.
Drop(why) == [step |-> "drop", log |-> why, ack |-> <<>>]

ValidateFields(data) ==
  IF missing_fields(data) # <<>>
    THEN FailAck("Missing required fields",
                 ack_payload(FALSE, Get(data, "device_id"), Get(data, "mac_address"),
                             Get(data, "timestamp"), 0,
                             <<"Missing fields">> \o missing_fields(data)))
  ELSE IF ~PyFloat(data["temperature"]).ok \/ ~PyFloat(data["humidity"]).ok
    THEN Drop("Invalid data type")
  ELSE IF ~IsStr(data["timestamp"])
    THEN FailAck("Timestamp must be string",
                 ack_payload(FALSE, PyStr(data["device_id"]), PyStr(data["mac_address"]),
                             PyStr(data["timestamp"]), 0,
                             <<"Timestamp must be ISO 8601 string, got",
                               TypeName(data["timestamp"])>>))
  ELSE IF ~FromIsoFormat(Normalize(data["timestamp"].s))
    THEN FailAck("Invalid datetime format",
                 ack_payload(FALSE, PyStr(data["device_id"]), PyStr(data["mac_address"]),
                             data["timestamp"], 0,
                             <<"Invalid datetime format">> \o data["timestamp"].s))
  ELSE [step |-> "insert", log |-> "", ack |-> <<>>]

Validate(p) ==
  CASE p.json = "invalid" -> Drop("Invalid JSON payload")
    [] p.json = "array" -> Drop("Error handling message")
    [] OTHER -> ValidateFields(p.data)

\* The locals of _handle_message after line 153 (Python str as token text).
device_id_of(p) == PyStr(p.data["device_id"]).s
mac_address_of(p) == PyStr(p.data["mac_address"]).s
temperature_of(p) == PyFloat(p.data["temperature"]).val
humidity_of(p) == PyFloat(p.data["humidity"]).val
timestamp_of(p) == p.data["timestamp"].s

\* mqtt.py:198-204, 220-226, 230-236: the three acknowledgments that follow
\* the insert.
SuccessAck(p, id) ==
  ack_payload(TRUE, Str(device_id_of(p)), Str(mac_address_of(p)),
              Str(timestamp_of(p)), id, <<>>)
InsertFailedAck(p) ==
  ack_payload(FALSE, Str(device_id_of(p)), Str(mac_address_of(p)),
              Str(timestamp_of(p)), 0, <<"Database insertion failed">>)
TimeoutAck(p) ==
  ack_payload(FALSE, Str(device_id_of(p)), Str(mac_address_of(p)),
              Str(timestamp_of(p)), 0, <<"Database timeout">>)

\* datetime.timestamp() of a parsed text (mqtt.py:216).
UnixTime(s) == IF s = <<"d">> THEN 1736553600 ELSE 1736598645

\* mqtt.py:208-217: the dict handed to broadcast_callback.
log_data(p, id) ==
  [log_id |-> id, device_id |-> device_id_of(p), mac_address |-> mac_address_of(p),
   temperature |-> temperature_of(p), humidity |-> humidity_of(p),
   timestamp |-> timestamp_of(p),
   datetime |-> Strip(RemoveZ(ReplaceT(timestamp_of(p)))),
   unix_timestamp |-> UnixTime(Strip(RemoveZ(ReplaceT(timestamp_of(p)))))]

\* Variant: the timestamp is stored as received.
sensor_row_raw(id, device_id, mac_address, temperature, humidity, timestamp) ==
  [log_id |-> id, device_id |-> device_id, mac_address |-> mac_address,
   temperature |-> temperature, humidity |-> humidity, timestamp |-> timestamp]
\* models.py:53-56, 61, 71-77: the row the INSERT writes; log_id comes from
\* AUTO_INCREMENT (models.py:12).
sensor_row(id, device_id, mac_address, temperature, humidity, timestamp) ==
  [log_id |-> id, device_id |-> device_id, mac_address |-> mac_address,
   temperature |-> temperature, humidity |-> humidity,
   timestamp |-> Normalize(timestamp)]

\* SQL NULL / Python None where a timestamp is expected (main.py:419).
NoTimestamp == -1

\* ----------------------------------------------------------------- state
VARIABLES
  payload,       \* payload[m]: the payload of the m-th message received
  pc,            \* pc[m]: where the task running _handle_message(m) is
  log_id,        \* log_id[m]: the handler's local log_id (0: None)
  insert_outcome,\* insert_outcome[m]: what became of the insert of m
  rows,          \* table sensor_data: committed rows, in commit order;
                 \*   each with msg, the message whose insert wrote it
  acks,          \* the calls of client.publish on the ack topic, in order;
                 \*   each with msg, the message whose handler made it
  sse_clients,   \* main.py:538: the list of registered observer queues
  queue,         \* queue[o]: the asyncio.Queue of observer o
  sent,          \* sent[o]: what sse_event_generator of o has yielded
  gen,           \* gen[o]: state of observer o's generator
  reg_rows,      \* reg_rows[o]: number of rows committed when o registered
  task,          \* MQTTClient.task: the listener task
  stop_event,    \* MQTTClient._stop_event
  shutdown,      \* where lifespan's shutdown is
  publish_failed,\* publish_failed[m]: client.publish raised in _send_ack for m
  put_failed,    \* put_failed[m]: the observers whose queue.put raised in
                 \*   the broadcast of m
  table,         \* sensor_data, the rows of the queried device, by log_id
  range,         \* the range token of the request
  now,           \* the clock, in seconds
  late,          \* rows committed since the request arrived
  ticks,         \* clock advances since the request arrived
  qpc,           \* where get_device_chart_by_range is
  first_timestamp,\* the handler's locals of the same names
  total_records,
  interval,
  history,
  window_start,
  window_end,
  response       \* what the handler returned

vars == <<payload, pc, log_id, insert_outcome, rows, acks, sse_clients, queue, sent,
          gen, reg_rows, task, stop_event, shutdown, publish_failed, put_failed,
          table, range, now, late, ticks, qpc, first_timestamp, total_records, interval,
          history, window_start, window_end, response>>

msg_vars == <<payload, pc, log_id, insert_outcome>>
sse_vars == <<sse_clients, queue, sent, gen, reg_rows>>
life_vars == <<task, stop_event, shutdown>>
ghost_vars == <<publish_failed, put_failed>>
ingest_vars == <<msg_vars, rows, acks, sse_vars, life_vars, ghost_vars>>
query_vars == <<table, range, now, late, ticks, qpc, first_timestamp, total_records, interval,
                history, window_start, window_end, response>>

\* After lifespan's startup (main.py:45-68): pool created, callback set,
\* client connected, listener subscribed; nothing received yet.
IngestInit ==
  /\ payload = [m \in Msgs |-> NoPayload]
  /\ pc = [m \in Msgs |-> "none"]
  /\ log_id = [m \in Msgs |-> 0]
  /\ insert_outcome = [m \in Msgs |-> "none"]
  /\ rows = <<>>
  /\ acks = <<>>
  /\ sse_clients = <<>>
  /\ queue = [o \in Obs |-> <<>>]
  /\ sent = [o \in Obs |-> <<>>]
  /\ gen = [o \in Obs |-> "new"]
  /\ reg_rows = [o \in Obs |-> 0]
  /\ task = "listening"
  /\ stop_event = FALSE
  /\ shutdown = "running"
  /\ publish_failed = [m \in Msgs |-> FALSE]
  /\ put_failed = [m \in Msgs |-> {}]

\* No range request is being served.
QueryIdle ==
  /\ table = <<>>
  /\ range = "1d"
  /\ now = 0
  /\ late = 0
  /\ ticks = 0
  /\ qpc = "idle"
  /\ first_timestamp = NoTimestamp
  /\ total_records = 0
  /\ interval = 1
  /\ history = <<>>
  /\ window_start = NoTimestamp
  /\ window_end = NoTimestamp
  /\ response = <<>>

Init == IngestInit /\ QueryIdle

\* cursor.lastrowid of the next INSERT (models.py:79).
lastrowid == Len(rows) + 1

\* Variant: _send_ack returns without calling client.publish.
PublishSkipped(m, ack) == acks' = acks
\* _send_ack up to its await (mqtt.py:255-279): the publish call.
Publish(m, ack) == acks' = Append(acks, [msg |-> m, ack |-> ack])

\* ------------------------------------------------------------- listener
\* Variant: the listener awaits the handler before it receives again.
ReceiveAfterHandled(p) ==
  /\ task = "listening"
  /\ ~stop_event
  /\ \A k \in Msgs : pc[k] \in {"none", "done"}
  /\ \E m \in Msgs :
       /\ pc[m] = "none"
       /\ \A k \in Msgs : k < m => pc[k] # "none"
       /\ payload' = [payload EXCEPT ![m] = p]
       /\ pc' = [pc EXCEPT ![m] = "scheduled"]
  /\ UNCHANGED <<log_id, insert_outcome, rows, acks>>
  /\ UNCHANGED sse_vars
  /\ UNCHANGED life_vars
  /\ UNCHANGED ghost_vars
  /\ UNCHANGED query_vars
\* mqtt.py:105-110: the listener receives the next message and creates the
\* task that handles it.
Receive(p) ==
  /\ task = "listening"
  /\ ~stop_event
  /\ \E m \in Msgs :
       /\ pc[m] = "none"
       /\ \A k \in Msgs : k < m => pc[k] # "none"
       /\ payload' = [payload EXCEPT ![m] = p]
       /\ pc' = [pc EXCEPT ![m] = "scheduled"]
  /\ UNCHANGED <<log_id, insert_outcome, rows, acks>>
  /\ UNCHANGED sse_vars
  /\ UNCHANGED life_vars
  /\ UNCHANGED ghost_vars
  /\ UNCHANGED query_vars

\* ------------------------------------------------------ _handle_message
\* mqtt.py:119-194: the task starts, decodes and validates, and runs up to
\* its first await: nothing (an exception was logged), the publish of a
\* failure acknowledgment, or the insert under wait_for.
HandleStart(m) ==
  /\ pc[m] = "scheduled"
  /\ LET v == Validate(payload[m])
     IN  CASE v.step = "drop" ->
                /\ pc' = [pc EXCEPT ![m] = "done"]
                /\ acks' = acks
           [] v.step = "ack" ->
                /\ pc' = [pc EXCEPT ![m] = "publishing"]
                /\ Publish(m, v.ack)
           [] OTHER ->
                /\ pc' = [pc EXCEPT ![m] = "inserting"]
                /\ acks' = acks
  /\ UNCHANGED <<payload, log_id, insert_outcome, rows>>
  /\ UNCHANGED sse_vars
  /\ UNCHANGED life_vars
  /\ UNCHANGED ghost_vars
  /\ UNCHANGED query_vars

\* Variant: the success acknowledgment is published though nothing was
\* committed.
InsertAckedUncommitted(m) ==
  /\ pc[m] = "inserting"
  /\ FromIsoFormat(Normalize(timestamp_of(payload[m])))
  /\ log_id' = [log_id EXCEPT ![m] = lastrowid]
  /\ Publish(m, SuccessAck(payload[m], lastrowid))
  /\ pc' = [pc EXCEPT ![m] = "publishing"]
  /\ insert_outcome' = [insert_outcome EXCEPT ![m] = "committed"]
  /\ UNCHANGED <<payload, rows>>
  /\ UNCHANGED sse_vars
  /\ UNCHANGED life_vars
  /\ UNCHANGED ghost_vars
  /\ UNCHANGED query_vars
\* models.py:61-86, mqtt.py:196-204: the timestamp parses; execute, commit,
\* return lastrowid; the handler then calls _send_ack(success=True).
InsertCommitted(m) ==
  /\ pc[m] = "inserting"
  /\ FromIsoFormat(Normalize(timestamp_of(payload[m])))
  /\ LET p == payload[m]
         id == lastrowid
     IN  /\ rows' = Append(rows, [msg |-> m,
                                   row |-> sensor_row(id, device_id_of(p), mac_address_of(p),
                                                      temperature_of(p), humidity_of(p),
                                                      timestamp_of(p))])
         /\ log_id' = [log_id EXCEPT ![m] = id]
         /\ Publish(m, SuccessAck(p, id))
  /\ pc' = [pc EXCEPT ![m] = "publishing"]
  /\ insert_outcome' = [insert_outcome EXCEPT ![m] = "committed"]
  /\ UNCHANGED payload
  /\ UNCHANGED sse_vars
  /\ UNCHANGED life_vars
  /\ UNCHANGED ghost_vars
  /\ UNCHANGED query_vars

\* models.py:64-68, 88-90, database.py:55-65, mqtt.py:218-226: the insert
\* returned None (its timestamp check failed, or a store error: rollback);
\* the handler calls
\* _send_ack(success=False, error="Database insertion failed").
InsertFailed(m) ==
  /\ pc[m] = "inserting"
  /\ Publish(m, InsertFailedAck(payload[m]))
  /\ pc' = [pc EXCEPT ![m] = "publishing"]
  /\ insert_outcome' = [insert_outcome EXCEPT ![m] = "error"]
  /\ UNCHANGED <<payload, log_id, rows>>
  /\ UNCHANGED sse_vars
  /\ UNCHANGED life_vars
  /\ UNCHANGED ghost_vars
  /\ UNCHANGED query_vars

\* Variant: after the first timeout the handler awaits the insert once more.
InsertTimeoutRetried(m) ==
  /\ pc[m] = "inserting"
  /\ insert_outcome[m] = "none"
  /\ FromIsoFormat(Normalize(timestamp_of(payload[m])))
  /\ \E committed \in BOOLEAN :
       LET p == payload[m]
       IN  rows' = IF committed
                     THEN Append(rows, [msg |-> m,
                            row |-> sensor_row(lastrowid, device_id_of(p), mac_address_of(p),
                                               temperature_of(p), humidity_of(p),
                                               timestamp_of(p))])
                     ELSE rows
  /\ insert_outcome' = [insert_outcome EXCEPT ![m] = "timeout"]
  /\ UNCHANGED <<payload, pc, log_id, acks>>
  /\ UNCHANGED sse_vars
  /\ UNCHANGED life_vars
  /\ UNCHANGED ghost_vars
  /\ UNCHANGED query_vars
\* mqtt.py:185-194, 228-236: wait_for gave up after MQTT_ACK_TIMEOUT and
\* cancelled the insert; the commit may or may not have reached the store.
InsertTimeout(m) ==
  /\ pc[m] = "inserting"
  /\ FromIsoFormat(Normalize(timestamp_of(payload[m])))
  /\ \E committed \in BOOLEAN :
       LET p == payload[m]
       IN  rows' = IF committed
                     THEN Append(rows, [msg |-> m,
                            row |-> sensor_row(lastrowid, device_id_of(p), mac_address_of(p),
                                               temperature_of(p), humidity_of(p),
                                               timestamp_of(p))])
                     ELSE rows
  /\ Publish(m, TimeoutAck(payload[m]))
  /\ pc' = [pc EXCEPT ![m] = "publishing"]
  /\ insert_outcome' = [insert_outcome EXCEPT ![m] = "timeout"]
  /\ UNCHANGED <<payload, log_id>>
  /\ UNCHANGED sse_vars
  /\ UNCHANGED life_vars
  /\ UNCHANGED ghost_vars
  /\ UNCHANGED query_vars

\* Variant: only the first registered queue gets the event.
broadcast_new_log_first(clients, q, data) ==
  IF clients = <<>> THEN q
  ELSE [q EXCEPT ![Head(clients)] = Append(q[Head(clients)], data)]
\* main.py:565-571: broadcast_new_log puts log_data on every queue of
\* sse_clients, in list order; the queues are unbounded, so no put waits.
RECURSIVE broadcast_new_log(_, _, _)
broadcast_new_log(clients, q, data) ==
  IF clients = <<>> THEN q
  ELSE broadcast_new_log(Tail(clients),
                         [q EXCEPT ![Head(clients)] = Append(q[Head(clients)], data)],
                         data)

\* Variant: the broadcast follows the acknowledgment of every attempted insert.
ShouldBroadcastInserted(m) == insert_outcome[m] # "none"
\* mqtt.py:196, 206-207: does the handler broadcast after _send_ack returned?
\* Only in the branch of "if log_id:".
ShouldBroadcast(m) == log_id[m] # 0

\* Variant: an exception of client.publish leaves _send_ack and ends the
\* handler at mqtt.py:242.
PublishReturnRaising(m, ok) ==
  /\ pc[m] = "publishing"
  /\ queue' = IF ok /\ ShouldBroadcast(m)
                THEN broadcast_new_log(sse_clients, queue, log_data(payload[m], log_id[m]))
                ELSE queue
  /\ pc' = [pc EXCEPT ![m] = "done"]
  /\ publish_failed' = [publish_failed EXCEPT ![m] = ~ok]
  /\ UNCHANGED <<payload, log_id, insert_outcome, rows, acks>>
  /\ UNCHANGED <<sse_clients, sent, gen, reg_rows>>
  /\ UNCHANGED life_vars
  /\ UNCHANGED put_failed
  /\ UNCHANGED query_vars
\* mqtt.py:275-285, 206-217: client.publish returns (ok) or raises, which
\* _send_ack logs and swallows: the handler goes on the same way.  After a
\* success acknowledgment it broadcasts.
PublishReturn(m, ok) ==
  /\ pc[m] = "publishing"
  /\ queue' = IF ShouldBroadcast(m)
                THEN broadcast_new_log(sse_clients, queue, log_data(payload[m], log_id[m]))
                ELSE queue
  /\ pc' = [pc EXCEPT ![m] = "done"]
  /\ UNCHANGED <<payload, log_id, insert_outcome, rows, acks>>
  /\ UNCHANGED <<sse_clients, sent, gen, reg_rows>>
  /\ UNCHANGED life_vars
  /\ publish_failed' = [publish_failed EXCEPT ![m] = ~ok]
  /\ UNCHANGED put_failed
  /\ UNCHANGED query_vars

\* main.py:567-571 when queue.put raises (an Exception such as MemoryError)
\* for the queues of F: the exception is logged and the loop goes on.
\* Variant: the first put that raises ends the loop.
RECURSIVE broadcast_new_log_until_raise(_, _, _, _)
broadcast_new_log_until_raise(clients, q, data, F) ==
  IF clients = <<>> \/ Head(clients) \in F THEN q
  ELSE broadcast_new_log_until_raise(Tail(clients),
         [q EXCEPT ![Head(clients)] = Append(q[Head(clients)], data)], data, F)
RECURSIVE broadcast_new_log_raising(_, _, _, _)
broadcast_new_log_raising(clients, q, data, F) ==
  IF clients = <<>> THEN q
  ELSE broadcast_new_log_raising(Tail(clients),
         IF Head(clients) \in F
           THEN q
           ELSE [q EXCEPT ![Head(clients)] = Append(q[Head(clients)], data)],
         data, F)

\* mqtt.py:206-217 with main.py:567-571: as PublishReturn after a success
\* acknowledgment, with queue.put raising for the observers of F.
PublishReturnPutRaises(m, ok, F) ==
  /\ pc[m] = "publishing"
  /\ ShouldBroadcast(m)
  /\ F # {}
  /\ F \subseteq Range(sse_clients)
  /\ queue' = broadcast_new_log_raising(sse_clients, queue,
                                        log_data(payload[m], log_id[m]), F)
  /\ pc' = [pc EXCEPT ![m] = "done"]
  /\ publish_failed' = [publish_failed EXCEPT ![m] = ~ok]
  /\ put_failed' = [put_failed EXCEPT ![m] = F]
  /\ UNCHANGED <<payload, log_id, insert_outcome, rows, acks>>
  /\ UNCHANGED <<sse_clients, sent, gen, reg_rows>>
  /\ UNCHANGED life_vars
  /\ UNCHANGED query_vars

\* ------------------------------------------------------------ observers
\* main.py:542-543: a stream starts: a new queue is appended to sse_clients.
Connect(o) ==
  /\ gen[o] = "new"
  /\ \A k \in Obs : k < o => gen[k] # "new"
  /\ sse_clients' = Append(sse_clients, o)
  /\ gen' = [gen EXCEPT ![o] = "streaming"]
  /\ reg_rows' = [reg_rows EXCEPT ![o] = Len(rows)]
  /\ UNCHANGED <<queue, sent>>
  /\ UNCHANGED msg_vars
  /\ UNCHANGED <<rows, acks>>
  /\ UNCHANGED life_vars
  /\ UNCHANGED ghost_vars
  /\ UNCHANGED query_vars

\* Variant: the newest item of the queue is yielded.
YieldNewest(o) ==
  /\ gen[o] = "streaming"
  /\ queue[o] # <<>>
  /\ sent' = [sent EXCEPT ![o] = Append(sent[o], queue[o][Len(queue[o])])]
  /\ queue' = [queue EXCEPT ![o] = SubSeq(queue[o], 1, Len(queue[o]) - 1)]
  /\ UNCHANGED <<sse_clients, gen, reg_rows>>
  /\ UNCHANGED msg_vars
  /\ UNCHANGED <<rows, acks>>
  /\ UNCHANGED life_vars
  /\ UNCHANGED ghost_vars
  /\ UNCHANGED query_vars
\* main.py:547-548: queue.get() returns the oldest item and it is yielded.
Yield(o) ==
  /\ gen[o] = "streaming"
  /\ queue[o] # <<>>
  /\ sent' = [sent EXCEPT ![o] = Append(sent[o], Head(queue[o]))]
  /\ queue' = [queue EXCEPT ![o] = Tail(queue[o])]
  /\ UNCHANGED <<sse_clients, gen, reg_rows>>
  /\ UNCHANGED msg_vars
  /\ UNCHANGED <<rows, acks>>
  /\ UNCHANGED life_vars
  /\ UNCHANGED ghost_vars
  /\ UNCHANGED query_vars

\* main.py:549-550: the stream is cancelled: the queue leaves sse_clients.
Cancel(o) ==
  /\ gen[o] = "streaming"
  /\ sse_clients' = SelectSeq(sse_clients, LAMBDA c : c # o)
  /\ gen' = [gen EXCEPT ![o] = "closed"]
  /\ UNCHANGED <<queue, sent, reg_rows>>
  /\ UNCHANGED msg_vars
  /\ UNCHANGED <<rows, acks>>
  /\ UNCHANGED life_vars
  /\ UNCHANGED ghost_vars
  /\ UNCHANGED query_vars

\* main.py:545-550: the generator is closed while it is suspended at its
\* yield (line 548): the consumer of the stream gave up while sending the
\* chunk, and aclose() throws GeneratorExit into the generator.  That is no
\* asyncio.CancelledError, so line 550 does not run and the queue stays in
\* sse_clients.
Close(o) ==
  /\ gen[o] = "streaming"
  /\ queue[o] # <<>>
  /\ sent' = [sent EXCEPT ![o] = Append(sent[o], Head(queue[o]))]
  /\ queue' = [queue EXCEPT ![o] = Tail(queue[o])]
  /\ gen' = [gen EXCEPT ![o] = "closed"]
  /\ UNCHANGED <<sse_clients, reg_rows>>
  /\ UNCHANGED msg_vars
  /\ UNCHANGED <<rows, acks>>
  /\ UNCHANGED life_vars
  /\ UNCHANGED ghost_vars
  /\ UNCHANGED query_vars

\* ------------------------------------------------------------- shutdown
\* mqtt.py:78-85, 112-113: disconnect sets the stop event and cancels the
\* listener task, which ends at its next step.  No handler task is touched.
Disconnect ==
  /\ shutdown = "running"
  /\ stop_event' = TRUE
  /\ task' = "cancelled"
  /\ shutdown' = "disconnecting"
  /\ UNCHANGED msg_vars
  /\ UNCHANGED <<rows, acks>>
  /\ UNCHANGED sse_vars
  /\ UNCHANGED ghost_vars
  /\ UNCHANGED query_vars

\* mqtt.py:83-89, main.py:76-79, database.py:47-49: disconnect has awaited
\* the listener task and the client's exit and returns; lifespan goes on to
\* close_pool, which waits for the connections in use.  The tasks the
\* listener created before it was cancelled were ready before disconnect
\* waited, so each has run up to its first await by now.
DisconnectReturn ==
  /\ shutdown = "disconnecting"
  /\ \A m \in Msgs : pc[m] # "scheduled"
  /\ shutdown' = "disconnected"
  /\ UNCHANGED <<task, stop_event>>
  /\ UNCHANGED msg_vars
  /\ UNCHANGED <<rows, acks>>
  /\ UNCHANGED sse_vars
  /\ UNCHANGED ghost_vars
  /\ UNCHANGED query_vars

\* Everything but the arrival of a message, when nothing raises and every
\* stream ends by cancellation.
Others ==
  \/ \E m \in Msgs : HandleStart(m)
  \/ \E m \in Msgs : InsertCommitted(m)
  \/ \E m \in Msgs : InsertFailed(m)
  \/ \E m \in Msgs : InsertTimeout(m)
  \/ \E m \in Msgs : PublishReturn(m, TRUE)
  \/ \E o \in Obs : Connect(o)
  \/ \E o \in Obs : Yield(o)
  \/ \E o \in Obs : Cancel(o)
  \/ Disconnect
  \/ DisconnectReturn

\* client.publish raises in _send_ack.
PublishRaises == \E m \in Msgs : PublishReturn(m, FALSE)
\* queue.put raises in broadcast_new_log.
PutRaises == \E m \in Msgs, F \in SUBSET Obs : PublishReturnPutRaises(m, TRUE, F)
\* Both raise for the same message.
BothRaise == \E m \in Msgs, F \in SUBSET Obs : PublishReturnPutRaises(m, FALSE, F)
\* A stream's generator is closed.
Closes == \E o \in Obs : Close(o)

Next ==
  \/ \E p \in Payloads : Receive(p)
  \/ Others
  \/ PublishRaises
  \/ PutRaises
  \/ BothRaise
  \/ Closes

Spec == Init /\ [][Next]_vars

\* The same program on a shorter run: the broker delivers ShortMsgs
\* messages, nothing raises, every stream ends by cancellation.
Delivered == Cardinality({m \in Msgs : pc[m] # "none"})
NextShort ==
  \/ \E p \in Payloads : Delivered < ShortMsgs /\ Receive(p)
  \/ Others

SpecShort == Init /\ [][NextShort]_vars

\* The full run when nothing raises and every stream ends by cancellation.
NextStreams ==
  \/ \E p \in Payloads : Receive(p)
  \/ Others

SpecStreams == Init /\ [][NextStreams]_vars

\* main.py:545-548: a stream whose consumer keeps reading: the generator
\* suspended at queue.get() is resumed once the queue holds an item.
FairStreams == SpecStreams /\ \A o \in Obs : WF_vars(Yield(o))

\* The short run where client.publish can raise.
NextPublishRaises ==
  \/ NextShort
  \/ PublishRaises

SpecPublishRaises == Init /\ [][NextPublishRaises]_vars

\* The short run where queue.put can raise.
NextPutRaises ==
  \/ NextShort
  \/ PutRaises

SpecPutRaises == Init /\ [][NextPutRaises]_vars

\* The short run where a stream can also end by being closed.
NextCloses ==
  \/ NextShort
  \/ Closes

SpecCloses == Init /\ [][NextCloses]_vars

\* =========================================================== range query
\* get_device_chart_by_range (main.py:325-520) for one request on one
\* device.  Timestamps are seconds.  table holds the rows WHERE device_id =
\* %s, by log_id.  In SpecQuery readings arrive in timestamp order with
\* distinct timestamps; in SpecQueryUnordered a reading may also carry the
\* timestamp of an earlier row, one before every row or one ahead of the
\* server's clock (the timestamp is whatever the device sent, mqtt.py:153).

\* main.py:370, 444
target_points == 100
\* main.py:339-346
range_mapping ==
  [r \in {"15d", "7d", "1d", "1h", "30m", "live"} |->
     CASE r = "15d" -> 21600 [] r = "7d" -> 10080 [] r = "1d" -> 1440
       [] r = "1h" -> 60 [] r = "30m" -> 30 [] OTHER -> 5]
\* Variant: an unmapped token is an hour.
minutes_of_default_hour(r) == IF r \in DOMAIN range_mapping THEN range_mapping[r] ELSE 60
\* main.py:348: range_mapping.get(range, 1440)
minutes_of(r) == IF r \in DOMAIN range_mapping THEN range_mapping[r] ELSE 1440
\* INTERVAL %s MINUTE, timedelta(minutes=minutes), in seconds
seconds_of(r) == minutes_of(r) * 60

\* The requests and the tables a request may find.
Ranges == DOMAIN range_mapping \cup {"2w"}
Periods == {1, 60}
Offsets == {30}
Table(n, per) == [i \in 1..n |-> [log_id |-> i, timestamp |-> (i - 1) * per]]

\* MIN(timestamp) over the rows lo..hi of t, NULL on no rows
\* (main.py:409-412); computed by halves.
RECURSIVE MinTimestamp(_, _, _)
MinTimestamp(t, lo, hi) ==
  IF lo > hi THEN NoTimestamp
  ELSE IF lo = hi THEN t[lo].timestamp
  ELSE LET mid == (lo + hi) \div 2
           l == MinTimestamp(t, lo, mid)
           r == MinTimestamp(t, mid + 1, hi)
       IN  IF r < l THEN r ELSE l
\* ORDER BY timestamp DESC LIMIT 1 over the rows lo..hi of t
\* (main.py:483-489); <<>> on no rows; computed by halves.
RECURSIVE Latest(_, _, _)
Latest(t, lo, hi) ==
  IF lo > hi THEN <<>>
  ELSE IF lo = hi THEN <<t[lo]>>
  ELSE LET mid == (lo + hi) \div 2
           l == Latest(t, lo, mid)
           r == Latest(t, mid + 1, hi)
       IN  IF r[1].timestamp > l[1].timestamp THEN r ELSE l

\* The WHERE clauses of the count and the sample query: main.py:358-359,
\* 389-390 (live) and 431-433, 463-465 (the other tokens).
InWindow(r, row) ==
  IF r = "live"
    THEN row.timestamp >= now - seconds_of(r)
    ELSE /\ row.timestamp >= first_timestamp
         /\ row.timestamp <= first_timestamp + seconds_of(r)
Windowed == SelectSeq(table, LAMBDA row : InWindow(range, row))

\* Variant: the interval is rounded up.
interval_ceil(total) ==
  IF total > 0 THEN (total + target_points - 1) \div target_points ELSE 1
\* Variant: the interval is rounded to the nearest.
interval_rounded(total) ==
  IF (total + target_points \div 2) \div target_points > 1
    THEN (total + target_points \div 2) \div target_points
    ELSE 1
\* main.py:371, 445: max(1, total_records // target_points) if total_records > 0 else 1
interval_of(total) ==
  IF total > 0
    THEN (IF total \div target_points > 1 THEN total \div target_points ELSE 1)
    ELSE 1

\* ORDER BY timestamp ASC (main.py:387, 461) names no second key: among
\* rows of one timestamp the store may number in any order.  Two of them
\* are taken: by log_id upwards and by log_id downwards.
TieBreaks == {"asc", "desc"}
Before(a, b, tb) ==
  \/ a.timestamp < b.timestamp
  \/ /\ a.timestamp = b.timestamp
     /\ IF tb = "asc" THEN a.log_id < b.log_id ELSE a.log_id > b.log_id
OrderBy(w, tb) == SortSeq(w, LAMBDA a, b : Before(a, b, tb))

\* ROW_NUMBER() OVER (ORDER BY timestamp ASC) (main.py:387, 461)
Numbered(w) == [k \in 1..Len(w) |-> [row_num |-> k, row |-> w[k]]]
\* Variant: MOD(row_num, interval) = 0
KeptByRowNum(row_num, n) == row_num % n = 0
\* WHERE MOD(row_num - 1, %s) = 0 (main.py:392, 467)
Kept(row_num, n) == (row_num - 1) % n = 0
\* The outer SELECT (main.py:377-394, 451-469).
Sampled(w, n) ==
  LET kept == SelectSeq(Numbered(w), LAMBDA x : Kept(x.row_num, n))
  IN  [j \in 1..Len(kept) |-> kept[j].row]

\* Variant: no rows is a success with an empty history.
NoDataAsEmptySuccess == [success |-> TRUE, history |-> <<>>]
\* main.py:420-423, 496-499
NoData == [success |-> FALSE, error |-> "No data found for this device"]
\* main.py:518-520
Failure == [success |-> FALSE, error |-> "exception"]

\* A request arrives: any token, any table up to MaxRows rows, some time
\* after the latest reading.
InitQuery ==
  /\ IngestInit
  /\ range \in Ranges
  /\ \E n \in 0..MaxRows, per \in Periods, off \in Offsets :
       /\ table = Table(n, per)
       /\ now = (IF n = 0 THEN 0 ELSE (n - 1) * per) + off
  /\ late = 0
  /\ ticks = 0
  /\ qpc = "start"
  /\ first_timestamp = NoTimestamp
  /\ total_records = 0
  /\ interval = 1
  /\ history = <<>>
  /\ window_start = NoTimestamp
  /\ window_end = NoTimestamp
  /\ response = <<>>

Serving == qpc \in {"start", "first", "counted", "sampled"}

\* The handler returns r: its locals are gone.
Return(r) ==
  /\ response' = r
  /\ qpc' = "done"
  /\ first_timestamp' = NoTimestamp
  /\ total_records' = 0
  /\ interval' = 1
  /\ history' = <<>>
  /\ window_start' = NoTimestamp
  /\ window_end' = NoTimestamp

\* main.py:406-423: the first timestamp of the device, for a token other
\* than live; none: the no-data response.
QueryFirst ==
  /\ qpc = "start"
  /\ range # "live"
  /\ IF MinTimestamp(table, 1, Len(table)) = NoTimestamp
       THEN Return(NoData)
       ELSE /\ first_timestamp' = MinTimestamp(table, 1, Len(table))
            /\ qpc' = "first"
            /\ UNCHANGED <<total_records, interval, history, window_start, window_end,
                           response>>
  /\ UNCHANGED <<table, range, now, late, ticks>>
  /\ UNCHANGED ingest_vars

\* main.py:355-371, 428-445: the count query and the interval.
QueryCount ==
  /\ \/ qpc = "start" /\ range = "live"
     \/ qpc = "first"
  /\ total_records' = Len(Windowed)
  /\ interval' = interval_of(total_records')
  /\ qpc' = "counted"
  /\ UNCHANGED <<table, range, now, late, ticks, first_timestamp, history,
                 window_start, window_end, response>>
  /\ UNCHANGED ingest_vars

\* main.py:376-404, 450-478: the sample query and the reported window.
QuerySample ==
  /\ qpc = "counted"
  /\ LET w == Windowed
     IN  \E tb \in TieBreaks : history' = Sampled(OrderBy(w, tb), interval)
  /\ IF range = "live"
       THEN /\ window_start' = now - seconds_of(range)
            /\ window_end' = now
       ELSE /\ window_start' = first_timestamp
            /\ window_end' = first_timestamp + seconds_of(range)
  /\ qpc' = "sampled"
  /\ UNCHANGED <<table, range, now, late, ticks, first_timestamp, total_records,
                 interval, response>>
  /\ UNCHANGED ingest_vars

\* Variant: the latest reading of the window.
current_in_window == Latest(Windowed, 1, Len(Windowed))
\* main.py:483-493: current, the latest reading of the device.
current_row == Latest(table, 1, Len(table))

\* main.py:482-517: the latest reading and the response.
QueryCurrent ==
  /\ qpc = "sampled"
  /\ LET current == current_row
     IN  Return(IF current = <<>> THEN NoData
                ELSE [success |-> TRUE, range |-> range,
                      range_minutes |-> minutes_of(range),
                      window_start |-> window_start, window_end |-> window_end,
                      total_records |-> total_records, sampled_points |-> Len(history),
                      sampling_interval |-> interval,
                      current |-> [timestamp |-> current[1].timestamp],
                      history |-> history])
  /\ UNCHANGED <<table, range, now, late, ticks>>
  /\ UNCHANGED ingest_vars

\* Variant: the exception leaves the handler.
QueryRaisesUncaught ==
  /\ Serving
  /\ qpc' = "raised"
  /\ UNCHANGED <<first_timestamp, total_records, interval, history, window_start,
                 window_end, response>>
  /\ UNCHANGED <<table, range, now, late, ticks>>
  /\ UNCHANGED ingest_vars

\* main.py:518-520: a query raised; the exception is logged and returned.
QueryRaises ==
  /\ Serving
  /\ Return(Failure)
  /\ UNCHANGED <<table, range, now, late, ticks>>
  /\ UNCHANGED ingest_vars

\* models.py:70-78: an ingestion handler commits a row of the device while
\* the request is served; its timestamp is past every earlier one.
RowCommitted ==
  /\ Serving
  /\ late < MaxLate
  /\ LET last == IF table = <<>> THEN NoTimestamp ELSE table[Len(table)].timestamp
         ts == IF now > last THEN now ELSE last + 1
     IN  table' = Append(table, [log_id |-> Len(table) + 1, timestamp |-> ts])
  /\ late' = late + 1
  /\ UNCHANGED <<range, now, ticks, qpc, first_timestamp, total_records, interval,
                 history, window_start, window_end, response>>
  /\ UNCHANGED ingest_vars

\* A minute passes while the request is served.
Tick ==
  /\ Serving
  /\ ticks < MaxTicks
  /\ now' = now + 60
  /\ ticks' = ticks + 1
  /\ UNCHANGED <<table, range, late, qpc, first_timestamp, total_records, interval,
                 history, window_start, window_end, response>>
  /\ UNCHANGED ingest_vars

NextQuery ==
  \/ QueryFirst
  \/ QueryCount
  \/ QuerySample
  \/ QueryCurrent
  \/ QueryRaises
  \/ RowCommitted
  \/ Tick

SpecQuery == InitQuery /\ [][NextQuery]_vars

\* models.py:70-78: the row committed while the request is served carries
\* the timestamp of the device's earliest row, or one a minute before it.
RowCommittedOutOfOrder ==
  /\ Serving
  /\ late < MaxLate
  /\ table # <<>>
  /\ \E back \in {0, 60} :
       table' = Append(table, [log_id |-> Len(table) + 1,
                               timestamp |-> MinTimestamp(table, 1, Len(table)) - back])
  /\ late' = late + 1
  /\ UNCHANGED <<range, now, ticks, qpc, first_timestamp, total_records, interval,
                 history, window_start, window_end, response>>
  /\ UNCHANGED ingest_vars

\* models.py:70-78: the row committed while the request is served carries
\* a timestamp a minute ahead of the server's clock (the device's clock
\* runs ahead; the timestamp is stored as sent).
RowCommittedAhead ==
  /\ Serving
  /\ late < MaxLate
  /\ table' = Append(table, [log_id |-> Len(table) + 1, timestamp |-> now + 60])
  /\ late' = late + 1
  /\ UNCHANGED <<range, now, ticks, qpc, first_timestamp, total_records, interval,
                 history, window_start, window_end, response>>
  /\ UNCHANGED ingest_vars

NextQueryUnordered ==
  \/ NextQuery
  \/ RowCommittedOutOfOrder
  \/ RowCommittedAhead

SpecQueryUnordered == InitQuery /\ [][NextQueryUnordered]_vars

\* ============================================================== claims
\* What a message is, said without the handler's own operators.
RowsOf(m) == {i \in 1..Len(rows) : rows[i].msg = m}
AcksOf(m) == {i \in 1..Len(acks) : acks[i].msg = m}
\* Everything ever put on observer o's queue, oldest first.
Enqueued(o) == sent[o] \o queue[o]
Registered == Range(sse_clients)

Received(m) == pc[m] # "none"
IsObject(p) == p.json = "object"
MissingOf(p) == Range(required_fields) \ DOMAIN p.data
HasAllFields(p) == IsObject(p) /\ MissingOf(p) = {}
NumericReadings(p) == p.data["temperature"].t = "num" /\ p.data["humidity"].t = "num"
\* The timestamps of the inputs that are date-times once "T" is a space and
\* "Z" is gone, and the text they stand for.
DateTimeTexts == {<<"d", "T", "t", "Z">>, <<"d", " ", "t">>}
DateTimeNormal == <<"d", " ", "t">>
WellFormed(p) == HasAllFields(p) /\ NumericReadings(p)
ValidMessage(p) ==
  /\ WellFormed(p)
  /\ p.data["timestamp"].t = "str"
  /\ p.data["timestamp"].s \in DateTimeTexts

\* The handler of m takes a step.
Steps(m) == pc'[m] # pc[m]
NothingEnqueued == \A o \in Obs : queue'[o] = queue[o]
OneFailureAck(m) ==
  /\ Cardinality(AcksOf(m)) = 1
  /\ \A j \in AcksOf(m) : acks[j].ack.success = FALSE /\ "error" \in DOMAIN acks[j].ack

\* C1 -- a valid message whose insert commits within the timeout: exactly
\* one row, holding the submitted values with the timestamp normalized;
\* exactly one acknowledgment, a success one echoing the timestamp as sent
\* and carrying that row's log_id; and its last step puts exactly one event
\* on every queue registered at that moment and on no other, its earlier
\* steps none.
C1_Expected(m) ==
  LET d == payload[m].data
  IN  [log_id |-> log_id[m], device_id |-> d["device_id"].s,
       mac_address |-> d["mac_address"].s, temperature |-> d["temperature"].n,
       humidity |-> d["humidity"].n]
C1_Done(m) ==
  /\ log_id[m] >= 1
  /\ Cardinality(RowsOf(m)) = 1
  /\ \A i \in RowsOf(m) :
       rows[i].row = C1_Expected(m) @@ [timestamp |-> DateTimeNormal]
  /\ Cardinality(AcksOf(m)) = 1
  /\ \A j \in AcksOf(m) :
       LET a == acks[j].ack
       IN  /\ a.success = TRUE
           /\ DOMAIN a = {"success", "device_id", "mac_address", "timestamp",
                           "log_id", "message"}
           /\ a.timestamp = payload[m].data["timestamp"]
           /\ a.device_id = payload[m].data["device_id"]
           /\ a.mac_address = payload[m].data["mac_address"]
           /\ a.log_id = log_id[m]
C1_Broadcast(m) ==
  IF pc'[m] = "done"
    THEN \A o \in Obs :
           IF o \in Registered
             THEN /\ Len(queue'[o]) = Len(queue[o]) + 1
                  /\ SubSeq(queue'[o], 1, Len(queue[o])) = queue[o]
                  /\ LET e == queue'[o][Len(queue'[o])]
                     IN  /\ \A k \in DOMAIN C1_Expected(m) : e[k] = C1_Expected(m)[k]
                         /\ e.timestamp = payload[m].data["timestamp"].s
                         /\ e.datetime = DateTimeNormal
             ELSE queue'[o] = queue[o]
    ELSE NothingEnqueued
C1_Case(m) ==
  Received(m) /\ ValidMessage(payload[m]) /\ insert_outcome[m] = "committed"
C1_ValidMessagePersistedAckedBroadcast ==
  /\ [](\A m \in Msgs : C1_Case(m) /\ pc[m] \in {"publishing", "done"} => C1_Done(m))
  /\ [][\A m \in Msgs :
          Received(m) /\ ValidMessage(payload[m]) /\ Steps(m)
            /\ (pc'[m] = "done" => insert_outcome[m] = "committed")
            => C1_Broadcast(m)]_vars
C1_Witness ==
  \E m \in Msgs :
    /\ C1_Case(m) /\ pc[m] = "done"
    /\ payload[m].data["timestamp"].s # DateTimeNormal
    /\ \A o \in Obs : \E i \in DOMAIN Enqueued(o) : Enqueued(o)[i].log_id = log_id[m]

\* C2 -- a decoded message with all five fields whose temperature or
\* humidity is not a number is answered by exactly one failure
\* acknowledgment and leaves no row.
C2_NonNumericReadingAcked ==
  \A m \in Msgs :
    (pc[m] = "done" /\ HasAllFields(payload[m]) /\ ~NumericReadings(payload[m]))
      => OneFailureAck(m) /\ RowsOf(m) = {}

\* C3 -- on every observer's queue the readings were enqueued in the order
\* in which they were persisted (ascending log_id).
C3_EnqueueOrderIsPersistOrder ==
  \A o \in Obs : \A i, j \in DOMAIN Enqueued(o) :
    i < j => Enqueued(o)[i].log_id < Enqueued(o)[j].log_id

\* C4 -- an observer never gets a reading that was already persisted when
\* it registered: every reading on its queue has a log_id beyond the rows
\* committed at its registration.
C4_NoReadingPersistedBeforeRegistration ==
  \A o \in Obs : \A i \in DOMAIN Enqueued(o) : Enqueued(o)[i].log_id > reg_rows[o]

\* C5 -- once disconnect has returned, no handler persists a row, publishes
\* an acknowledgment or broadcasts.
C5_NoHandlerWorkAfterDisconnect ==
  [][shutdown = "disconnected" =>
       /\ rows' = rows
       /\ acks' = acks
       /\ \A o \in Obs : Len(queue'[o]) <= Len(queue[o])]_vars

\* C6 -- a decoded object lacking required fields: exactly one failure
\* acknowledgment, whose error names exactly the missing fields; no row;
\* and no step of its handler enqueues anything.
C6_Case(m) == Received(m) /\ IsObject(payload[m]) /\ MissingOf(payload[m]) # {}
C6_MissingFieldsAcked ==
  /\ [](\A m \in Msgs :
          C6_Case(m) =>
            /\ RowsOf(m) = {}
            /\ pc[m] \in {"publishing", "done"} =>
                 /\ OneFailureAck(m)
                 /\ \A j \in AcksOf(m) :
                      /\ Head(acks[j].ack.error) = "Missing fields"
                      /\ Range(Tail(acks[j].ack.error)) = MissingOf(payload[m]))
  /\ [][\A m \in Msgs : C6_Case(m) /\ Steps(m) => NothingEnqueued]_vars
C6_Witness ==
  \E m \in Msgs :
    /\ C6_Case(m) /\ pc[m] = "done"
    /\ Cardinality(MissingOf(payload[m])) = 2
    /\ Registered # {}

\* C7 -- an otherwise well-formed message whose timestamp is a number:
\* exactly one failure acknowledgment, citing the type; no row; and no step
\* of its handler enqueues anything.
C7_Case(m) ==
  Received(m) /\ WellFormed(payload[m]) /\ payload[m].data["timestamp"].t = "num"
C7_NumericTimestampAcked ==
  /\ [](\A m \in Msgs :
          C7_Case(m) =>
            /\ RowsOf(m) = {}
            /\ pc[m] \in {"publishing", "done"} =>
                 /\ OneFailureAck(m)
                 /\ \A j \in AcksOf(m) :
                      acks[j].ack.error = <<"Timestamp must be ISO 8601 string, got", "int">>)
  /\ [][\A m \in Msgs : C7_Case(m) /\ Steps(m) => NothingEnqueued]_vars
C7_Witness ==
  \E m \in Msgs : C7_Case(m) /\ pc[m] = "done" /\ Registered # {}

\* C8 -- an otherwise well-formed message whose timestamp is text that is
\* no date-time: exactly one failure acknowledgment, citing the format; no
\* row; and no step of its handler enqueues anything.
C8_Case(m) ==
  /\ Received(m) /\ WellFormed(payload[m])
  /\ payload[m].data["timestamp"].t = "str"
  /\ payload[m].data["timestamp"].s \notin DateTimeTexts
C8_UnparsableTimestampAcked ==
  /\ [](\A m \in Msgs :
          C8_Case(m) =>
            /\ RowsOf(m) = {}
            /\ pc[m] \in {"publishing", "done"} =>
                 /\ OneFailureAck(m)
                 /\ \A j \in AcksOf(m) : Head(acks[j].ack.error) = "Invalid datetime format")
  /\ [][\A m \in Msgs : C8_Case(m) /\ Steps(m) => NothingEnqueued]_vars
C8_Witness ==
  \E m \in Msgs : C8_Case(m) /\ pc[m] = "done" /\ Registered # {}

\* C9 -- a payload that json.loads rejects: no row, no acknowledgment, and
\* the handler's one step ends the handling and enqueues nothing.
C9_Case(m) == Received(m) /\ payload[m].json = "invalid"
C9_UndecodableDropped ==
  /\ [](\A m \in Msgs :
          C9_Case(m) => RowsOf(m) = {} /\ AcksOf(m) = {} /\ pc[m] \in {"scheduled", "done"})
  /\ [][\A m \in Msgs : C9_Case(m) /\ Steps(m) => pc'[m] = "done" /\ NothingEnqueued]_vars
C9_Witness ==
  \E m \in Msgs : C9_Case(m) /\ pc[m] = "done" /\ Registered # {}

\* C10 -- an insert that timed out: exactly one failure acknowledgment,
\* with the timeout reason; an insert that returned no log_id: exactly one
\* failure acknowledgment.  In both cases the insert is not started again,
\* at most one row comes of it, and no step of the handler enqueues
\* anything.
C10_Case(m) == insert_outcome[m] \in {"timeout", "error"}
C10_TimeoutOrNoLogIdAcked ==
  /\ [](\A m \in Msgs :
          C10_Case(m) =>
            /\ pc[m] \in {"publishing", "done"}
            /\ log_id[m] = 0
            /\ OneFailureAck(m)
            /\ Cardinality(RowsOf(m)) <= 1
            /\ insert_outcome[m] = "error" => RowsOf(m) = {}
            /\ \A j \in AcksOf(m) :
                 acks[j].ack.error = IF insert_outcome[m] = "timeout"
                                       THEN <<"Database timeout">>
                                       ELSE <<"Database insertion failed">>)
  /\ [][\A m \in Msgs :
          (C10_Case(m) \/ insert_outcome'[m] \in {"timeout", "error"}) /\ Steps(m)
            => NothingEnqueued]_vars
C10_Witness ==
  \E m \in Msgs :
    /\ insert_outcome[m] = "timeout" /\ pc[m] = "done"
    /\ RowsOf(m) # {}
    /\ Registered # {}

\* The events put on any observer's queue so far.
Events == UNION {Range(Enqueued(o)) : o \in Obs}
SuccessAcksOf(m) == {j \in AcksOf(m) : acks[j].ack.success = TRUE}
\* The event that a step appends to observer o's queue.
Appended(o) == queue'[o][Len(queue'[o])]
Grows(o) == Len(queue'[o]) > Len(queue[o])

\* C11 -- every event on a queue belongs to a message whose row was
\* persisted under the event's log_id and whose only acknowledgment is a
\* success one; the step that enqueues it is the last step of that message's
\* handler and finds the row committed and the success acknowledgment
\* already published; a message that ended with a failure acknowledgment
\* or with none has no event.
C11_Owner(e, m) ==
  /\ log_id[m] # 0
  /\ log_id[m] = e.log_id
  /\ \E r \in RowsOf(m) : rows[r].row.log_id = e.log_id
  /\ SuccessAcksOf(m) # {}
  /\ \A j \in SuccessAcksOf(m) : acks[j].ack.log_id = e.log_id
C11_AckThenBroadcast ==
  /\ [](\A e \in Events : \E m \in Msgs :
          C11_Owner(e, m) /\ pc[m] = "done" /\ SuccessAcksOf(m) = AcksOf(m))
  /\ [](\A m \in Msgs :
          pc[m] = "done" /\ SuccessAcksOf(m) = {} =>
            \A e \in Events :
              /\ e.log_id # log_id[m]
              /\ \A r \in RowsOf(m) : e.log_id # rows[r].row.log_id)
  /\ [][\A o \in Obs :
          Grows(o) =>
            \E m \in Msgs :
              /\ pc[m] = "publishing" /\ pc'[m] = "done"
              /\ C11_Owner(Appended(o), m)]_vars
C11_Witness ==
  \E m \in Msgs, o \in Obs :
    /\ pc[m] = "done"
    /\ \E e \in Range(Enqueued(o)) : C11_Owner(e, m)

\* C12 -- when queue.put raises for some observers during the broadcast of
\* a message, the step publishes nothing and leaves the acknowledgments as
\* they are, every other registered observer gets the event, and the message
\* keeps its one success acknowledgment.
C12_Step(m) ==
  /\ acks' = acks
  /\ \A o \in Obs :
       IF o \in Registered \ put_failed'[m]
         THEN /\ Grows(o)
              /\ queue'[o] = Append(queue[o], Appended(o))
              /\ Appended(o).log_id = log_id[m]
         ELSE queue'[o] = queue[o]
C12_PutFailureIsolated ==
  /\ [](\A m \in Msgs :
          put_failed[m] # {} =>
            /\ pc[m] = "done"
            /\ Cardinality(AcksOf(m)) = 1
            /\ \A j \in AcksOf(m) : acks[j].ack.success = TRUE /\ acks[j].ack.log_id = log_id[m])
  /\ [][\A m \in Msgs :
          put_failed'[m] # {} /\ pc[m] = "publishing" /\ pc'[m] = "done" => C12_Step(m)]_vars
C12_Witness ==
  \E m \in Msgs, i, j \in DOMAIN sse_clients :
    /\ i < j
    /\ sse_clients[i] \in put_failed[m]
    /\ sse_clients[j] \notin put_failed[m]
    /\ \E e \in Range(Enqueued(sse_clients[j])) : e.log_id = log_id[m]
    /\ \A e \in Range(Enqueued(sse_clients[i])) : e.log_id # log_id[m]

\* C13 -- while the listener runs and the broker has a message, the
\* listener can receive it, whatever the handlers of earlier messages are
\* doing or have suffered; receiving creates the handler's task; and the
\* listener is ended by disconnect only.
C13_Failed(m) ==
  \/ pc[m] = "done" /\ AcksOf(m) = {}
  \/ \E j \in AcksOf(m) : acks[j].ack.success = FALSE
  \/ insert_outcome[m] \in {"error", "timeout"}
  \/ publish_failed[m]
  \/ put_failed[m] # {}
C13_ListenerNeverBlocked ==
  /\ [](task = "listening" /\ (\E m \in Msgs : pc[m] = "none")
          => ENABLED (\E p \in Payloads : Receive(p)))
  /\ [][(\A m \in Msgs : pc[m] = "none" /\ pc'[m] # "none" => pc'[m] = "scheduled")
        /\ (task' # task \/ stop_event' # stop_event
              => shutdown = "running" /\ shutdown' = "disconnecting")]_vars
C13_Witness ==
  \E m1, m2 \in Msgs :
    /\ m1 < m2
    /\ C13_Failed(m1) /\ publish_failed[m1] /\ pc[m1] = "done"
    /\ pc[m2] = "inserting"
    /\ task = "listening"

\* C14 -- an observer whose generator has ended is not in sse_clients.
C14_EndedObserverUnregistered ==
  \A o \in Obs : gen[o] = "closed" => o \notin Registered

\* C15 -- a publish sees one subscriber set: the step that enqueues an
\* event changes no registration and appends that one event to the queue of
\* every registered observer and of no other; no observer is ever given the
\* same reading twice.
C15_PublishAtomic ==
  /\ [](\A o \in Obs : \A i, j \in DOMAIN Enqueued(o) :
          i # j => Enqueued(o)[i].log_id # Enqueued(o)[j].log_id)
  /\ [][(\E o \in Obs : Grows(o)) =>
          /\ sse_clients' = sse_clients
          /\ \E e \in UNION {Range(queue'[o]) : o \in Obs} :
               \A o \in Obs :
                 queue'[o] = IF o \in Registered THEN Append(queue[o], e) ELSE queue[o]]_vars
C15_Witness ==
  \E o1, o2 \in Obs :
    /\ o1 \in Registered /\ Len(Enqueued(o1)) = 1
    /\ gen[o2] = "closed" /\ o2 \notin Registered /\ Enqueued(o2) = <<>>
    /\ reg_rows[o2] = 0 /\ reg_rows[o1] = 0

\* C16 -- every acknowledgment published has the keys success, device_id,
\* mac_address and timestamp; it has log_id and message exactly when
\* success is true, and error exactly when success is false.
C16_AckShape ==
  \A j \in DOMAIN acks :
    LET a == acks[j].ack
    IN  /\ {"success", "device_id", "mac_address", "timestamp"} \subseteq DOMAIN a
        /\ a.success \in BOOLEAN
        /\ "log_id" \in DOMAIN a <=> a.success
        /\ "message" \in DOMAIN a <=> a.success
        /\ "error" \in DOMAIN a <=> ~a.success
C16_Witness ==
  \E j \in DOMAIN acks :
    /\ acks[j].ack.success = FALSE
    /\ acks[j].ack.device_id = None
    /\ DOMAIN acks[j].ack = {"success", "device_id", "mac_address", "timestamp", "error"}

\* C17 -- when client.publish raises in _send_ack: the same step ends the
\* handler as if it had returned, with no further publish call; a message
\* with a success acknowledgment is broadcast to every registered observer
\* in that step; and the message keeps exactly one publish call.
C17_Step(m) ==
  /\ pc'[m] = "done"
  /\ acks' = acks
  /\ \A o \in Obs :
       IF log_id[m] # 0 /\ o \in Registered
         THEN /\ Grows(o)
              /\ queue'[o] = Append(queue[o], Appended(o))
              /\ Appended(o).log_id = log_id[m]
         ELSE queue'[o] = queue[o]
C17_PublishFailureSwallowed ==
  /\ [](\A m \in Msgs : publish_failed[m] => pc[m] = "done" /\ Cardinality(AcksOf(m)) = 1)
  /\ [][\A m \in Msgs : publish_failed'[m] /\ ~publish_failed[m] => C17_Step(m)]_vars
C17_Witness ==
  \E m \in Msgs :
    /\ publish_failed[m] /\ log_id[m] # 0
    /\ Registered # {}
    /\ \A o \in Registered : \E e \in Range(Enqueued(o)) : e.log_id = log_id[m]

\* The handler runs its count query / its sample query in this step.
Counts == qpc # "counted" /\ qpc' = "counted"
Samples == qpc = "counted" /\ qpc' = "sampled"
\* The table is in timestamp order, so the k-th row of Windowed has
\* zero-based index k - 1 in ascending timestamp order.
Ascending(t) == \A i \in 1..(Len(t) - 1) : t[i].timestamp < t[i + 1].timestamp

\* C18 -- the count step sets total_records to the number of in-window
\* rows and interval to max(1, floor(total_records / 100)); the sample step
\* returns, in ascending timestamp order, exactly the in-window rows whose
\* zero-based index is a multiple of interval; with 250 rows in the window
\* at both steps, interval is 2 and 125 points are returned.
C18_KeptIndices(w, n) == {k \in 1..Len(w) : (k - 1) % n = 0}
C18_Sampled(h, w, n) ==
  /\ {h[j].log_id : j \in DOMAIN h} = {w[k].log_id : k \in C18_KeptIndices(w, n)}
  /\ Len(h) = Cardinality(C18_KeptIndices(w, n))
  /\ Ascending(h)
C19_AtMost100Points ==
  /\ Len(history) <= 100
  /\ qpc = "done" /\ response.success => Len(response.history) <= 100

\* C20 -- when the window holds a row at the sample step, the first point
\* of the history is a row of the window with the smallest timestamp; and
\* whatever the interval, sampling a non-empty window keeps its earliest
\* row.
C20_Earliest(h, w) ==
  /\ h # <<>>
  /\ LET e == h[1]
     IN  /\ \E k \in DOMAIN w : w[k] = e
         /\ \A k \in DOMAIN w : e.timestamp <= w[k].timestamp
C20_EarliestRowKept ==
  /\ [](qpc = "counted" =>
          LET w == Windowed
          IN  w # <<>> => \A n \in 1..MaxInterval : C20_Earliest(Sampled(w, n), w))
  /\ [][Samples =>
          LET w == Windowed
          IN  w # <<>> => C20_Earliest(history', w)]_vars
C20_Witness ==
  /\ qpc = "sampled"
  /\ range = "live"
  /\ interval = 2
  /\ Len(history) > 1
  /\ history[1].log_id = 1

\* C21 -- the sample step numbers the in-window rows by ascending
\* timestamp and, among rows of one timestamp, by ascending log_id: the
\* rows of the history are those kept from that one numbering.
C21_ByLogId(w) == OrderBy(w, "asc")
C21_TiesByLogId ==
  [][Samples =>
       LET s == Sampled(C21_ByLogId(Windowed), interval)
       IN  {history'[j].log_id : j \in DOMAIN history'} = {s[j].log_id : j \in DOMAIN s}]_vars

\* C22 -- a request for a device without rows ends, whatever the token
\* (live and unmapped tokens included), in the no-data response or, when
\* a query raised, in the failure response, both with success false; a
\* success response is only ever given for a device with rows.
C22_NoDataForEmptyDevice ==
  qpc = "done" =>
    /\ table = <<>> => response \in {NoData, Failure} /\ ~response.success
    /\ response.success => table # <<>>
C22_Witness ==
  /\ qpc = "done"
  /\ table = <<>>
  /\ range = "live"
  /\ response = NoData
  /\ response # Failure

\* C23 -- for the token live, once the sample step has run, the reported
\* window is five minutes long and ends at the current time, the rows
\* counted are the device's rows with a timestamp in the reported window,
\* and the rows sampled are taken from exactly those rows (no row is
\* committed meanwhile).
C23_InReported(row) == row.timestamp >= window_start /\ row.timestamp <= window_end
C23_LiveWindowIsOneInstant ==
  qpc = "sampled" /\ range = "live" /\ late = 0 =>
    LET w == SelectSeq(table, C23_InReported)
    IN  /\ window_end - window_start = 300
        /\ total_records = Len(w)
        /\ \E tb \in TieBreaks : history = Sampled(OrderBy(w, tb), interval)

\* C24 -- for every token other than live the handler's window starts at
\* the timestamp of the first row recorded for the device (the row with
\* the smallest log_id) and ends the token's duration later, whatever
\* rows have been committed since.
C24_WindowAnchoredAtFirstRecorded ==
  qpc = "sampled" /\ range # "live" =>
    /\ window_start = table[1].timestamp
    /\ window_end = table[1].timestamp + seconds_of(range)

\* C25 -- the current value of a success response carries the greatest
\* timestamp over all rows of the device, in or out of the window: no row
\* of the device is later, and some row has that timestamp.
C25_CurrentIsLatestOfDevice ==
  qpc = "done" /\ response.success =>
    /\ \A k \in DOMAIN table : table[k].timestamp <= response.current.timestamp
    /\ \E k \in DOMAIN table : table[k].timestamp = response.current.timestamp
C25_Witness ==
  /\ qpc = "done"
  /\ response.success
  /\ range = "30m"
  /\ response.current.timestamp > response.window_end
  /\ response.current.timestamp = table[Len(table)].timestamp

\* C26 -- at every step of a request a query may raise, and the request
\* then ends at once with the failure response: success false, an error
\* text, and not the no-data response; a request never ends otherwise than
\* with a response.
C26_StoreErrorIsStructured ==
  /\ [](/\ qpc \in {"start", "first", "counted", "sampled", "done"}
        /\ Serving => ENABLED QueryRaises
        /\ qpc = "done" => /\ response # <<>>
                           /\ ~response.success => "error" \in DOMAIN response)
  /\ [][QueryRaises => /\ qpc' = "done"
                       /\ ~response'.success
                       /\ response'.error = "exception"
                       /\ response' # NoData]_vars
C26_Witness ==
  /\ qpc = "done"
  /\ table # <<>>
  /\ response = Failure
  /\ response # NoData
  /\ range = "1h"

\* C27 -- a request with a token that range_mapping does not hold counts,
\* samples and reports what a request with the token 1d does on the same
\* rows: the rows from the first timestamp to a day (86400 s) after it,
\* the interval of that count, the points kept from those rows, and the
\* window from the first timestamp to a day after it.
C27_Day(row) == row.timestamp >= first_timestamp /\ row.timestamp <= first_timestamp + 86400
C27_UnmappedTokenIsOneDay ==
  [][range \notin DOMAIN range_mapping =>
       /\ Counts =>
            LET w == SelectSeq(table, C27_Day)
            IN  /\ qpc = "first"
                /\ total_records' = Len(w)
                /\ interval' = interval_of(Len(w))
       /\ Samples =>
            LET w == SelectSeq(table, C27_Day)
            IN  /\ \E tb \in TieBreaks : history' = Sampled(OrderBy(w, tb), interval)
                /\ window_start' = first_timestamp
                /\ window_end' = first_timestamp + 86400
                /\ seconds_of(range) = seconds_of("1d")]_vars
C27_Witness ==
  /\ qpc = "sampled"
  /\ range = "2w"
  /\ total_records = 250
  /\ Len(history) = 125
  /\ table[Len(table)].timestamp > first_timestamp + 3600
  /\ window_end = window_start + 86400

\* C28 -- a message has at most one row and at most one acknowledgment,
\* on every path of its handler (timeout, publish raising, put raising
\* included); its insert is awaited once: the handler enters the insert
\* only from its start, leaves it with the outcome set, and once the
\* outcome is set neither the outcome nor the message's rows or
\* acknowledgments change.
C28_AtMostOnce ==
  /\ [](\A m \in Msgs : Cardinality(RowsOf(m)) <= 1 /\ Cardinality(AcksOf(m)) <= 1)
  /\ [][\A m \in Msgs :
          /\ pc'[m] = "inserting" /\ pc[m] # "inserting" => pc[m] = "scheduled"
          /\ pc[m] = "inserting" =>
               \/ pc'[m] = "inserting" /\ insert_outcome'[m] = insert_outcome[m]
               \/ /\ pc'[m] = "publishing"
                  /\ insert_outcome[m] = "none"
                  /\ insert_outcome'[m] # "none"
          /\ insert_outcome[m] # "none" =>
               /\ insert_outcome'[m] = insert_outcome[m]
               /\ Len(rows') = Len(rows)
                    \/ rows'[Len(rows')].msg # m
               /\ Len(acks') = Len(acks)
                    \/ acks'[Len(acks')].msg # m]_vars
C28_Witness ==
  \E m, k \in Msgs :
    /\ pc[m] = "done" /\ pc[k] = "done"
    /\ insert_outcome[m] = "timeout"
    /\ Cardinality(RowsOf(m)) = 1
    /\ Cardinality(AcksOf(m)) = 1
    /\ insert_outcome[k] = "committed"
    /\ publish_failed[k]
    /\ put_failed[k] # {}
    /\ Cardinality(RowsOf(k)) = 1
    /\ Cardinality(AcksOf(k)) = 1

\* C29 -- every published success acknowledgment carries a log_id, and a
\* row of the same message with that log_id, device_id and mac_address is
\* in the store; and no step of the handler of a message that fails
\* validation with an acknowledgment (a missing field, a timestamp that is
\* no string, a timestamp that does not parse) changes the store or any
\* observer's queue.
C29_RowOf(j) ==
  {i \in DOMAIN rows :
     /\ rows[i].msg = acks[j].msg
     /\ rows[i].row.log_id = acks[j].ack.log_id
     /\ Str(rows[i].row.device_id) = acks[j].ack.device_id
     /\ Str(rows[i].row.mac_address) = acks[j].ack.mac_address}
C29_ValidationFails(m) == pc[m] # "none" /\ Validate(payload[m]).step = "ack"
C29_SuccessAckHasRow ==
  /\ [](\A j \in DOMAIN acks :
          acks[j].ack.success => "log_id" \in DOMAIN acks[j].ack /\ C29_RowOf(j) # {})
  /\ [][\A m \in Msgs :
          C29_ValidationFails(m) /\ Steps(m) =>
            /\ rows' = rows
            /\ queue' = queue
            /\ sent' = sent]_vars
C29_Witness ==
  \E m, k \in Msgs :
    /\ pc[m] = "done" /\ pc[k] = "done"
    /\ \E j \in AcksOf(m) : acks[j].ack.success /\ C29_RowOf(j) # {}
    /\ C29_ValidationFails(k)
    /\ \E j \in AcksOf(k) : ~acks[j].ack.success
    /\ Registered # {}
    /\ RowsOf(k) = {}

\* C30 -- a handler about to broadcast can always take its step, whatever
\* the queues hold; its broadcast appends the event to the queue of every
\* registered observer; what an observer was given (yielded items, then
\* queued items) only ever grows at its end, the yielded items only by the
\* oldest queued one, and holds no event twice; and while a stream goes on
\* reading, the n-th event given to it is eventually yielded.
C30_Broadcasts(m) == pc[m] = "publishing" /\ pc'[m] = "done" /\ log_id[m] # 0
C30_Extends(a, b) == Len(b) >= Len(a) /\ SubSeq(b, 1, Len(a)) = a
C30_NoBlockNoDropFifo ==
  /\ [](/\ \A m \in Msgs : pc[m] = "publishing" => ENABLED PublishReturn(m, TRUE)
        /\ \A o \in Obs : \A i, j \in DOMAIN Enqueued(o) :
             i # j => Enqueued(o)[i] # Enqueued(o)[j])
  /\ [][/\ \A m \in Msgs : C30_Broadcasts(m) =>
             \A o \in Registered :
               queue'[o] = Append(queue[o], log_data(payload[m], log_id[m]))
        /\ \A o \in Obs :
             /\ C30_Extends(Enqueued(o), sent'[o] \o queue'[o])
             /\ C30_Extends(sent[o], sent'[o])
             /\ Len(sent'[o]) <= Len(sent[o]) + 1]_vars
  /\ \A o \in Obs : \A n \in 1..MaxMsgs :
       (gen[o] = "streaming" /\ Len(Enqueued(o)) >= n)
         ~> (Len(sent[o]) >= n \/ gen[o] # "streaming")
C30_Witness ==
  \E o, k \in Obs :
    /\ gen[o] = "streaming" /\ gen[k] = "streaming"
    /\ Len(sent[o]) = 2 /\ queue[o] = <<>>
    /\ sent[o][1] # sent[o][2]
    /\ sent[k] = <<>> /\ queue[k] = sent[o]
    /\ \A m \in Msgs : pc[m] = "done"

\* C31 -- the figures of a success response agree with one another, also
\* when rows are committed while the request is served (the clock standing
\* still): sampling_interval is max(1, floor(total_records / 100)),
\* sampled_points is ceil(total_records / sampling_interval), and the
\* history has sampled_points points.
C31_FiguresConsistent ==
  qpc = "done" /\ response.success /\ ticks = 0 =>
    LET t == response.total_records
        n == response.sampling_interval
    IN  /\ n = (IF t \div 100 >= 1 THEN t \div 100 ELSE 1)
        /\ response.sampled_points = (t + n - 1) \div n
        /\ Len(response.history) = response.sampled_points

\* C32 -- every point of the history of a success response has its
\* timestamp within the response's window, window_start and window_end
\* included, for every token.
C32_HistoryInsideWindow ==
  qpc = "done" /\ response.success =>
    \A j \in DOMAIN response.history :
      /\ response.history[j].timestamp >= response.window_start
      /\ response.history[j].timestamp <= response.window_end

\* C33 -- when neither the rows nor the clock change between the count and
\* the sample, the history has ceil(total / max(1, floor(total / 100)))
\* points, total being the count: as many as total below 100, and fewer
\* than 200 always; the same arithmetic on interval_of holds for every
\* total up to MaxTotal (it depends on no state, and is evaluated where a
\* request starts on a device without rows).
C33_Points(t, n) == (t + n - 1) \div n
C33_Floor(t) == IF t \div 100 >= 1 THEN t \div 100 ELSE 1
====
